---- MODULE Spec2Model ----
(***************************************************************************)
(* A model of cluster_utils_PANGEO.py: the NaN-aware transform/classify    *)
(* pipeline (pca_transform, gmm_classify, gmm_prob, gmm_score_samples),    *)
(* the sampler (random_sample), the aggregator (count_area) and the label  *)
(* aligners (reorder, temp_sort, match_profiles, match_spatial).           *)
(*                                                                         *)
(* A numpy array is a record [shape, buf]: a shape and a flat row-major    *)
(* buffer.  A float element is a record [nan, v]: either NaN, or the       *)
(* number v.  Integer arrays hold plain integers.                          *)
(***************************************************************************)
EXTENDS Integers, Sequences, FiniteSets, TLC

VARIABLES
    data,             \* the caller's profile array, axes (..., lev)
    data_trans,       \* the caller's reduced array, axes (..., pca_comp)
    shares_memory,    \* whether func's reshape is a view on the caller's buffer
    pca,              \* the fitted reducer
    gmm,              \* the fitted classifier
    profiles_in,      \* the profile array as it was when pca_transform was last called
    data_classes,     \* the caller's class assignment, axis (n)
    data_classes_ref, \* the reference class assignment, axis (n)
    lat,              \* the latitude coordinate of axis n, in degrees
    avg0,             \* a list of per-class profile summaries
    avg1,             \* a second list of per-class profile summaries
    last,             \* the operation that returned last
    prev,             \* the operation that returned before it
    arg,              \* the inputs as they were when the last operation was called
    prev_arg,         \* the inputs of the operation before it
    result,           \* what the last operation returned
    prev_result       \* what the operation before it returned

pipeVars  == <<data, data_trans, shares_memory, pca, gmm, profiles_in>>
labelVars == <<data_classes, data_classes_ref, lat, avg0, avg1>>
histVars  == <<last, prev, arg, prev_arg, result, prev_result>>
vars      == <<pipeVars, labelVars, histVars>>

(***************************************************************************)
(* Bounds                                                                  *)
(***************************************************************************)
NLev == 3
MaxRows == 2
NClasses == 2
MaxK == 3
NLoc == 3
MaxTime == 1

\* the values a valid profile takes at every depth level
SampleVals == {1, 2}

(***************************************************************************)
(* Floats and arrays                                                       *)
(***************************************************************************)
NaN == [nan |-> TRUE, v |-> 0]
Num(x) == [nan |-> FALSE, v |-> x]

NoArray == [shape |-> <<>>, buf |-> <<>>]

RECURSIVE Prod(_)
Prod(s) == IF s = <<>> THEN 1 ELSE Head(s) * Prod(Tail(s))

RECURSIVE SumSeq(_)
SumSeq(s) == IF s = <<>> THEN 0 ELSE Head(s) + SumSeq(Tail(s))

\* arr.shape[:-1]
Leading(shape) == SubSeq(shape, 1, Len(shape) - 1)

\* the number of rows of np.reshape(arr, (-1, width))
NRowsOf(arr, width) == Len(arr.buf) \div width

\* arr_r[r, c] of arr_r = np.reshape(arr, (-1, width)), indices from 1
At(buf, width, r, c) == buf[(r - 1) * width + c]

\* np.isnan(arr_r), as a flat mask over the buffer
isnan(buf) == [i \in DOMAIN buf |-> buf[i].nan]

\* arr_r[inds] = 0
zero_fill(buf, inds) == [i \in DOMAIN buf |-> IF inds[i] THEN Num(0) ELSE buf[i]]

(***************************************************************************)
(* Reducer: sklearn PCA.transform, out = (X - mean_) @ components_.T        *)
(***************************************************************************)
pca_project(p, buf, lev_size, r, c) ==
    SumSeq([l \in 1..lev_size |->
              (At(buf, lev_size, r, l).v - p.mean_[l]) * p.components_[c][l]])

\* a transform that leaves the zero-filled projection in place
pca_nan_mask_never(inds, lev_size, r, c) == FALSE

\* inds[..., 0:n_comp][r, c]: the mask of depth level c of row r
pca_nan_mask(inds, lev_size, r, c) == At(inds, lev_size, r, c)

\* pca_transform.func: the returned array and the input buffer as func leaves it
pca_func(arr, p) ==
    LET lev_size == arr.shape[Len(arr.shape)]
        n_comp   == p.n_components
        rows     == NRowsOf(arr, lev_size)
        inds     == isnan(arr.buf)
        arr_r    == zero_fill(arr.buf, inds)
        out      == [j \in 1..(rows * n_comp) |->
                       LET r == ((j - 1) \div n_comp) + 1
                           c == ((j - 1) % n_comp) + 1
                       IN  IF pca_nan_mask(inds, lev_size, r, c)
                           THEN NaN
                           ELSE Num(pca_project(p, arr_r, lev_size, r, c))]
    IN  [out |-> [shape |-> Leading(arr.shape) \o <<n_comp>>, buf |-> out],
         arr_r |-> arr_r]

(***************************************************************************)
(* Classifier: sklearn GaussianMixture with equal weights and unit         *)
(* spherical covariances; the weighted log-density of class k at x is,     *)
(* up to a positive affine map, -|x - means_[k]|^2.                        *)
(***************************************************************************)
gmm_logprob(g, buf, pca_size, r, k) ==
    0 - SumSeq([c \in 1..pca_size |->
                 (At(buf, pca_size, r, c).v - g.means_[k][c])
               * (At(buf, pca_size, r, c).v - g.means_[k][c])])

\* gmm.predict: argmax over the classes, the first one on a tie; labels from 0
gmm_predict(g, buf, pca_size, r) ==
    LET K    == g.n_components
        best == CHOOSE k \in 1..K :
                  /\ \A j \in 1..K :
                       gmm_logprob(g, buf, pca_size, r, j) <= gmm_logprob(g, buf, pca_size, r, k)
                  /\ \A j \in 1..(k - 1) :
                       gmm_logprob(g, buf, pca_size, r, j) < gmm_logprob(g, buf, pca_size, r, k)
    IN  best - 1

\* inds[:, 0][r]: the mask of the first component of row r
gmm_nan_mask(inds, pca_size, r) == At(inds, pca_size, r, 1)

\* gmm_classify.func
gmm_classify_func(arr, g) ==
    LET pca_size == arr.shape[Len(arr.shape)]
        rows     == NRowsOf(arr, pca_size)
        inds     == isnan(arr.buf)
        arr_r    == zero_fill(arr.buf, inds)
        out      == [r \in 1..rows |->
                       IF gmm_nan_mask(inds, pca_size, r)
                       THEN -1
                       ELSE gmm_predict(g, arr_r, pca_size, r)]
    IN  [out |-> [shape |-> Leading(arr.shape), buf |-> out], arr_r |-> arr_r]

\* gmm_prob.func: one value per row and class, NaN in the rows the mask names;
\* a posterior is stood for by the class's log-density, func reads neither
gmm_prob_func(arr, g) ==
    LET pca_size == arr.shape[Len(arr.shape)]
        gmm_size == g.n_components
        rows     == NRowsOf(arr, pca_size)
        inds     == isnan(arr.buf)
        arr_r    == zero_fill(arr.buf, inds)
        out      == [j \in 1..(rows * gmm_size) |->
                       LET r == ((j - 1) \div gmm_size) + 1
                           k == ((j - 1) % gmm_size) + 1
                       IN  IF gmm_nan_mask(inds, pca_size, r)
                           THEN NaN
                           ELSE Num(gmm_logprob(g, arr_r, pca_size, r, k))]
    IN  [out |-> [shape |-> Leading(arr.shape) \o <<gmm_size>>, buf |-> out],
         arr_r |-> arr_r]

\* gmm_score_samples.func: one value per row, NaN in the rows the mask names;
\* the score is stood for by the largest class log-density, func does not read it
gmm_score_samples_func(arr, g) ==
    LET pca_size == arr.shape[Len(arr.shape)]
        rows     == NRowsOf(arr, pca_size)
        inds     == isnan(arr.buf)
        arr_r    == zero_fill(arr.buf, inds)
        out      == [r \in 1..rows |->
                       IF gmm_nan_mask(inds, pca_size, r)
                       THEN NaN
                       ELSE Num(gmm_logprob(g, arr_r, pca_size, r,
                                            gmm_predict(g, arr_r, pca_size, r) + 1))]
    IN  [out |-> [shape |-> Leading(arr.shape), buf |-> out], arr_r |-> arr_r]

\* what the caller's array holds after func ran on it: np.reshape returns a view
\* of a contiguous in-memory array, so arr_r[inds] = 0 writes through to it
after_call(arr, arr_r) ==
    IF shares_memory THEN [shape |-> arr.shape, buf |-> arr_r] ELSE arr

(***************************************************************************)
(* The pipeline's inputs                                                   *)
(***************************************************************************)
MaskKinds == {"none", "all", "first", "last"}

\* one profile: value val at every depth level, missing where the kind says
Profile(kind, val) ==
    [l \in 1..NLev |->
        IF \/ kind = "all"
           \/ kind = "first" /\ l = 1
           \/ kind = "last" /\ l = NLev
        THEN NaN ELSE Num(val)]

\* the valid profiles of every value, and one profile of each missing kind
Profiles ==
    {Profile("none", x) : x \in SampleVals} \cup {Profile(k, 1) : k \in MaskKinds}

RECURSIVE Flatten(_)
Flatten(rows) == IF rows = <<>> THEN <<>> ELSE Head(rows) \o Flatten(Tail(rows))

\* the leading axes: (N,) of a sample array, (time, n) of a profile array
LeadingShapes ==
    {<<n>> : n \in 1..MaxRows}
    \cup {<<t, n>> : t \in 1..MaxRows, n \in 1..MaxRows}

ProfileArrays ==
    UNION {{[shape |-> s \o <<NLev>>, buf |-> Flatten(rows)] :
              rows \in [1..Prod(s) -> Profiles]} :
           s \in {x \in LeadingShapes : Prod(x) <= MaxRows}}

\* a reducer with n orthonormal components (the depth axes, deepest first)
\* around the mean profile 1
Reducer(n) ==
    [n_components |-> n,
     mean_        |-> [l \in 1..NLev |-> 1],
     components_  |-> [c \in 1..n |-> [l \in 1..NLev |-> IF l = NLev + 1 - c THEN 1 ELSE 0]]]

\* a classifier with K classes in an n-dimensional component space
Classifier(K, n) ==
    [n_components |-> K,
     means_       |-> [k \in 1..K |-> [c \in 1..n |-> k - 1]]]

\* the variables of the label operations, unused
NoLabels ==
    /\ data_classes = NoArray
    /\ data_classes_ref = NoArray
    /\ lat = <<>>
    /\ avg0 = <<>>
    /\ avg1 = <<>>

\* the variables of the pipeline, unused
NoPipe ==
    /\ data = NoArray
    /\ data_trans = NoArray
    /\ shares_memory = FALSE
    /\ pca = <<>>
    /\ gmm = <<>>
    /\ profiles_in = NoArray

\* nothing has been called yet
NoHist ==
    /\ last = "none"
    /\ prev = "none"
    /\ arg = NoArray
    /\ prev_arg = NoArray
    /\ result = NoArray
    /\ prev_result = NoArray

PipeOps == {"pca_transform", "gmm_classify", "gmm_prob", "gmm_score_samples"}

InitPipe ==
    /\ data \in ProfileArrays
    /\ data_trans = NoArray
    /\ shares_memory \in BOOLEAN
    /\ \E n \in 1..NLev : /\ pca = Reducer(n)
                          /\ gmm = Classifier(NClasses, n)
    /\ profiles_in = NoArray
    /\ NoHist
    /\ NoLabels

PcaTransform ==
    /\ LET f == pca_func(data, pca)
       IN  /\ data' = after_call(data, f.arr_r)
           /\ data_trans' = f.out
           /\ result' = f.out
    /\ arg' = data
    /\ profiles_in' = data
    /\ prev' = last
    /\ prev_result' = result
    /\ prev_arg' = arg
    /\ last' = "pca_transform"
    /\ UNCHANGED <<shares_memory, pca, gmm, labelVars>>

GmmClassify ==
    /\ data_trans # NoArray
    /\ LET f == gmm_classify_func(data_trans, gmm)
       IN  /\ data_trans' = after_call(data_trans, f.arr_r)
           /\ result' = f.out
    /\ arg' = data_trans
    /\ prev' = last
    /\ prev_result' = result
    /\ prev_arg' = arg
    /\ last' = "gmm_classify"
    /\ UNCHANGED <<data, shares_memory, pca, gmm, profiles_in, labelVars>>

GmmProb ==
    /\ data_trans # NoArray
    /\ LET f == gmm_prob_func(data_trans, gmm)
       IN  /\ data_trans' = after_call(data_trans, f.arr_r)
           /\ result' = f.out
    /\ arg' = data_trans
    /\ prev' = last
    /\ prev_result' = result
    /\ prev_arg' = arg
    /\ last' = "gmm_prob"
    /\ UNCHANGED <<data, shares_memory, pca, gmm, profiles_in, labelVars>>

GmmScoreSamples ==
    /\ data_trans # NoArray
    /\ LET f == gmm_score_samples_func(data_trans, gmm)
       IN  /\ data_trans' = after_call(data_trans, f.arr_r)
           /\ result' = f.out
    /\ arg' = data_trans
    /\ prev' = last
    /\ prev_result' = result
    /\ prev_arg' = arg
    /\ last' = "gmm_score_samples"
    /\ UNCHANGED <<data, shares_memory, pca, gmm, profiles_in, labelVars>>

NextPipe == PcaTransform \/ GmmClassify \/ GmmProb \/ GmmScoreSamples

SpecPipe == InitPipe /\ [][NextPipe]_vars

(***************************************************************************)
(* Claims about the pipeline                                               *)
(***************************************************************************)
\* row r of a (.., width) array has a missing value / is missing throughout
AnyMissing(arr, width, r) == \E c \in 1..width : At(arr.buf, width, r, c).nan
AllMissing(arr, width, r) == \A c \in 1..width : At(arr.buf, width, r, c).nan

\* C1: pca_transform returns a row missing in all K components for every input
\* row with a missing value at any depth level, and a row with no missing
\* component for every input row with no missing depth value.
C1_MissingRowIsAllMissing ==
    last = "pca_transform" =>
        \A r \in 1..NRowsOf(arg, NLev) :
            IF AnyMissing(arg, NLev, r)
            THEN AllMissing(result, pca.n_components, r)
            ELSE ~AnyMissing(result, pca.n_components, r)

\* C2: gmm_classify returns -1 at exactly the rows with a missing component,
\* a label in [0, K) at every other row, and drops the component axis.
C2_SentinelIffAnyMissing ==
    last = "gmm_classify" =>
        /\ result.shape = Leading(arg.shape)
        /\ \A r \in 1..NRowsOf(arg, pca.n_components) :
              IF AnyMissing(arg, pca.n_components, r)
              THEN result.buf[r] = -1
              ELSE result.buf[r] \in 0..(gmm.n_components - 1)

\* every profile of the array is fully missing or has no missing value
AllOrNothing(arr) ==
    \A r \in 1..NRowsOf(arr, NLev) : AllMissing(arr, NLev, r) \/ ~AnyMissing(arr, NLev, r)

EndToEnd == last = "gmm_classify" /\ prev = "pca_transform"

\* C3: on a profile array whose profiles are each fully missing or fully
\* valid, pca_transform followed by gmm_classify yields -1 at exactly the
\* positions of the fully missing profiles and a label in [0, K) elsewhere.
C3_EndToEndSentinel ==
    (EndToEnd /\ AllOrNothing(profiles_in)) =>
        /\ result.shape = Leading(profiles_in.shape)
        /\ \A r \in 1..NRowsOf(profiles_in, NLev) :
              IF AllMissing(profiles_in, NLev, r)
              THEN result.buf[r] = -1
              ELSE result.buf[r] \in 0..(gmm.n_components - 1)

\* a (time, location) array with a missing and a valid profile went through
C3_Witness ==
    /\ EndToEnd /\ AllOrNothing(profiles_in)
    /\ Len(profiles_in.shape) = 3
    /\ \E r \in 1..NRowsOf(profiles_in, NLev) :
          AllMissing(profiles_in, NLev, r) /\ result.buf[r] = -1
    /\ \E r \in 1..NRowsOf(profiles_in, NLev) :
          ~AnyMissing(profiles_in, NLev, r) /\ result.buf[r] >= 0

\* C9: the transform and classification operations leave the caller's input
\* array as it was, so the same call made twice in a row returns the same
\* output both times.
C9_InputsUnmodified ==
    /\ last = "pca_transform" => data = arg
    /\ last \in PipeOps \ {"pca_transform"} => data_trans = arg
    /\ (last \in PipeOps /\ last = prev) => result = prev_result

(***************************************************************************)
(* Label alignment: index arrays and lists are functions over 0..K-1, as   *)
(* in the code; class labels are 0..K-1, and -1 is the sentinel.           *)
(***************************************************************************)
Perms(K) == {p \in [0..(K - 1) -> 0..(K - 1)] : \A i, j \in 0..(K - 1) : p[i] = p[j] => i = j}

Inverse(p) == [i \in DOMAIN p |-> CHOOSE j \in DOMAIN p : p[j] = i]

Max(S) == CHOOSE x \in S : \A y \in S : y <= x

\* a[i] for a python index i: a negative one counts from the end
py_index(i, n) == IF i < 0 THEN i + n ELSE i

\* np.argsort(v): the sorting index arrays; which one of them the default sort
\* returns when values tie is up to the build
np_argsort(v) ==
    {p \in Perms(Cardinality(DOMAIN v)) :
        \A i, j \in DOMAIN v : i < j => v[p[i]] <= v[p[j]]}

\* np.argmin / np.argmax of a vector: the first index of the extreme value
np_argmin(v) ==
    CHOOSE i \in DOMAIN v : /\ \A j \in DOMAIN v : v[i] <= v[j]
                            /\ \A j \in DOMAIN v : j < i => v[j] > v[i]
np_argmax(v) ==
    CHOOSE i \in DOMAIN v : /\ \A j \in DOMAIN v : v[i] >= v[j]
                            /\ \A j \in DOMAIN v : j < i => v[j] < v[i]

\* an index table that maps an old label straight through inds
reorder_inds_r_forward(inds) == inds

\* inds_r = np.zeros(np.shape(inds)); inds_r[inds] = np.arange(0, np.size(inds)):
\* of the positions that name i the last one is kept, and 0 where none does
reorder_inds_r(inds) ==
    [i \in DOMAIN inds |->
        LET js == {j \in DOMAIN inds : inds[j] = i}
        IN  IF js = {} THEN 0 ELSE Max(js)]

\* a relabelling that sends the sentinel through the index table as well
reorder_func_no_sentinel(buf, inds_r) ==
    [x \in DOMAIN buf |-> inds_r[py_index(buf[x], Cardinality(DOMAIN inds_r))]]

\* reorder.func: out = inds_r[arr.astype('int')]; out[arr == -1] = -1
reorder_func(buf, inds_r) ==
    LET out == [x \in DOMAIN buf |-> inds_r[py_index(buf[x], Cardinality(DOMAIN inds_r))]]
    IN  [x \in DOMAIN buf |-> IF buf[x] = -1 THEN -1 ELSE out[x]]

reorder(classes, inds) ==
    [shape |-> classes.shape, buf |-> reorder_func(classes.buf, reorder_inds_r(inds))]

\* temp_sort: the shallowest-level mean of every class
top_mean(avg) == [i \in DOMAIN avg |-> avg[i].mean[1]]

\* temp_sort: every value it can return
temp_sort(classes, avg, as_arg) ==
    {IF as_arg THEN inds ELSE reorder(classes, inds) : inds \in np_argsort(top_mean(avg))}

\* a caller-supplied dist: the summed absolute difference of the mean profiles
dist_abs(a, b) ==
    SumSeq([l \in DOMAIN a.mean |->
              IF a.mean[l] >= b.mean[l] THEN a.mean[l] - b.mean[l] ELSE b.mean[l] - a.mean[l]])

\* match_profiles: norms[i, j]
match_profiles_norm(a, b, dist) ==
    IF dist = "None"
    THEN SumSeq([l \in DOMAIN a.mean |-> (a.mean[l] - b.mean[l]) * (a.mean[l] - b.mean[l])])
    ELSE dist_abs(a, b)

\* a matching that takes the farthest profile
match_profiles_pick_max(norms_i) == np_argmax(norms_i)

\* np.argmin(norms, axis=1)[i]
match_profiles_pick(norms_i) == np_argmin(norms_i)

match_profiles(a0, a1, dist) ==
    LET n_classes == Cardinality(DOMAIN a0)
    IN  IF n_classes # Cardinality(DOMAIN a1)
        THEN [raised |-> "AssertionError", value |-> <<>>]
        ELSE [raised |-> "none",
              value  |-> [i \in DOMAIN a0 |->
                            match_profiles_pick(
                               [j \in DOMAIN a1 |-> match_profiles_norm(a0[i], a1[j], dist)])]]

\* np.cos(lat * 3.1415/180) in units of 1e-7
cos_lat_3_1415(l) == CASE l = 0 -> 10000000 [] l = -30 -> 8660331 [] l = -60 -> 5000267

\* match_spatial: counts[j][k], the weighted number of locations where the
\* candidate is j and the reference is k
match_spatial_count(cand, ref, lats, j, k) ==
    SumSeq([x \in DOMAIN cand.buf |->
              IF ref.buf[x] = k /\ cand.buf[x] = j THEN cos_lat_3_1415(lats[x]) ELSE 0])

\* a matching that takes the candidate class with the least overlap
match_spatial_pick_min(counts_k) == np_argmin(counts_k)

\* np.argmax(counts, axis=0)[k]
match_spatial_pick(counts_k) == np_argmax(counts_k)

match_spatial(cand, ref, lats, n_classes) ==
    [k \in 0..(n_classes - 1) |->
        match_spatial_pick([j \in 0..(n_classes - 1) |->
                              match_spatial_count(cand, ref, lats, j, k)])]

(***************************************************************************)
(* The label operations' inputs                                            *)
(***************************************************************************)
\* the class assignments of NLoc locations with K classes
ClassArrays(K) == {[shape |-> <<NLoc>>, buf |-> b] : b \in [1..NLoc -> -1..(K - 1)]}

MeanVals == {1, 3, 5}

\* a summary whose mean profile has the shallowest value t
Summary(t, deep) == [mean |-> <<t, deep>>, std |-> <<0, 0>>]

(***************************************************************************)
(* reorder                                                                 *)
(***************************************************************************)
InitReorder ==
    /\ data_classes \in ClassArrays(MaxK)
    /\ data_classes_ref = NoArray
    /\ lat = <<>>
    /\ avg0 = <<>>
    /\ avg1 = <<>>
    /\ NoPipe
    /\ NoHist

\* data_classes = reorder(data_classes, inds), up to twice in a row
Reorder ==
    /\ prev = "none"
    /\ \E inds \in Perms(MaxK) :
          /\ arg' = [data_classes |-> data_classes, inds |-> inds]
          /\ result' = reorder(data_classes, inds)
          /\ data_classes' = reorder(data_classes, inds)
    /\ last' = "reorder"
    /\ prev' = last
    /\ prev_arg' = arg
    /\ prev_result' = result
    /\ UNCHANGED <<pipeVars, data_classes_ref, lat, avg0, avg1>>

NextReorder == Reorder

SpecReorder == InitReorder /\ [][NextReorder]_vars

\* the last two calls were reorder(reorder(a, p), inverse(p))
RoundTrip ==
    /\ last = "reorder" /\ prev = "reorder"
    /\ arg.inds = Inverse(prev_arg.inds)

\* C4: reorder(reorder(a, p), inverse(p)) equals a at every position, and a
\* position holding -1 still holds -1 after reorder(a, q) for any permutation q.
C4_ReorderRoundTrip ==
    /\ RoundTrip => result = prev_arg.data_classes
    /\ last = "reorder" =>
          \A x \in DOMAIN result.buf :
              arg.data_classes.buf[x] = -1 => result.buf[x] = -1

\* a round trip through a permutation that is not its own inverse, on an
\* assignment it changes and that holds a sentinel
C4_Witness ==
    /\ RoundTrip
    /\ arg.inds # prev_arg.inds
    /\ arg.data_classes # prev_arg.data_classes
    /\ \E x \in DOMAIN result.buf : result.buf[x] = -1
    /\ result = prev_arg.data_classes

(***************************************************************************)
(* temp_sort, applied once to the inputs drawn                             *)
(***************************************************************************)
InitTempSort ==
    /\ \E K \in 1..MaxK :
          /\ data_classes \in ClassArrays(K)
          /\ avg0 \in [0..(K - 1) -> {Summary(t, 0) : t \in MeanVals}]
    /\ data_classes_ref = NoArray
    /\ lat = <<>>
    /\ avg1 = <<>>
    /\ NoPipe
    /\ NoHist

TempSort ==
    /\ last = "none"
    /\ \E as_arg \in BOOLEAN : \E out \in temp_sort(data_classes, avg0, as_arg) :
          /\ arg' = [data_classes |-> data_classes, avg |-> avg0, arg |-> as_arg]
          /\ result' = out
    /\ last' = "temp_sort"
    /\ prev' = last
    /\ prev_arg' = arg
    /\ prev_result' = result
    /\ UNCHANGED <<pipeVars, labelVars>>

NextTempSort == TempSort

SpecTempSort == InitTempSort /\ [][NextTempSort]_vars

\* the number of classes whose shallowest mean is below that of class c
RankBelow(avg, c) == Cardinality({d \in DOMAIN avg : avg[d].mean[1] < avg[c].mean[1]})
\* the number of other classes whose shallowest mean is not above that of class c
RankUpTo(avg, c) == Cardinality({d \in DOMAIN avg : d # c /\ avg[d].mean[1] <= avg[c].mean[1]})

Relabelled == last = "temp_sort" /\ ~arg.arg

\* C8: temp_sort relabels every class to the ascending rank of its shallowest
\* mean (means 5, 1, 3 give labels 2, 0, 1; classes whose means tie share their
\* ranks in some order), two classes never share a label, -1 stays -1, and
\* with means ascending in class order the output is the input.
C8_TempSortRanks ==
    Relabelled =>
        LET a == arg.data_classes.buf
            K == Cardinality(DOMAIN arg.avg)
            m == [c \in DOMAIN arg.avg |-> arg.avg[c].mean[1]]
        IN  /\ result.shape = arg.data_classes.shape
            /\ \A x \in DOMAIN a :
                  IF a[x] = -1 THEN result.buf[x] = -1
                  ELSE /\ result.buf[x] >= RankBelow(arg.avg, a[x])
                       /\ result.buf[x] <= RankUpTo(arg.avg, a[x])
            /\ \A x, y \in DOMAIN a :
                  (a[x] # -1 /\ a[y] # -1) => (a[x] = a[y] <=> result.buf[x] = result.buf[y])
            /\ (K = 3 /\ m = (0 :> 5 @@ 1 :> 1 @@ 2 :> 3)) =>
                  \A x \in DOMAIN a :
                      /\ a[x] = 0 => result.buf[x] = 2
                      /\ a[x] = 1 => result.buf[x] = 0
                      /\ a[x] = 2 => result.buf[x] = 1
            /\ (\A c, d \in DOMAIN m : c < d => m[c] < m[d]) => result = arg.data_classes

\* the means 5, 1, 3 relabelled an assignment that holds all three classes
C8_Witness ==
    /\ Relabelled
    /\ top_mean(arg.avg) = (0 :> 5 @@ 1 :> 1 @@ 2 :> 3)
    /\ arg.data_classes.buf = <<0, 1, 2>>
    /\ result.buf = <<2, 0, 1>>

(***************************************************************************)
(* match_profiles, applied once to the inputs drawn                        *)
(***************************************************************************)
\* avg1[p[i]] = avg0[i]
PermutedBy(a0, p) == [j \in DOMAIN a0 |-> a0[Inverse(p)[j]]]

InitMatchProfiles ==
    /\ \E K \in 1..MaxK :
          /\ avg0 \in [0..(K - 1) -> {Summary(t, d) : t \in {1, 3}, d \in {1, 3}}]
          /\ \/ \E p \in Perms(K) : avg1 = PermutedBy(avg0, p)
             \/ avg1 = [j \in 0..(K - 2) |-> avg0[j]]
    /\ data_classes = NoArray
    /\ data_classes_ref = NoArray
    /\ lat = <<>>
    /\ NoPipe
    /\ NoHist

MatchProfiles ==
    /\ last = "none"
    /\ \E dist \in {"None", "abs"} :
          /\ arg' = [avg0 |-> avg0, avg1 |-> avg1, dist |-> dist]
          /\ result' = match_profiles(avg0, avg1, dist)
    /\ last' = "match_profiles"
    /\ prev' = last
    /\ prev_arg' = arg
    /\ prev_result' = result
    /\ UNCHANGED <<pipeVars, labelVars>>

NextMatchProfiles == MatchProfiles

SpecMatchProfiles == InitMatchProfiles /\ [][NextMatchProfiles]_vars

\* the mean profiles of the list are pairwise distinct
DistinctMeans(a) == \A i, j \in DOMAIN a : i # j => a[i].mean # a[j].mean

\* C7: when avg1 is avg0 permuted by p (avg1[p[i]] has the mean profile of
\* avg0[i]) and the mean profiles are pairwise distinct, match_profiles with
\* the default distance returns exactly p, an injective index array.
C7_MatchProfilesRecovers ==
    (last = "match_profiles" /\ arg.dist = "None") =>
        \A p \in Perms(Cardinality(DOMAIN arg.avg0)) :
            ( /\ DOMAIN arg.avg1 = DOMAIN arg.avg0
              /\ \A i \in DOMAIN arg.avg0 : arg.avg1[p[i]].mean = arg.avg0[i].mean
              /\ DistinctMeans(arg.avg0) )
            => (result.raised = "none" /\ result.value = p)

\* three distinct profiles, permuted by a cycle, were matched
C7_Witness ==
    /\ last = "match_profiles" /\ arg.dist = "None"
    /\ DOMAIN arg.avg0 = 0..2
    /\ DistinctMeans(arg.avg0)
    /\ arg.avg1 = PermutedBy(arg.avg0, (0 :> 1 @@ 1 :> 2 @@ 2 :> 0))
    /\ result.value = (0 :> 1 @@ 1 :> 2 @@ 2 :> 0)

(***************************************************************************)
(* match_spatial, applied once to the inputs drawn, and the candidate      *)
(* reordered by what it returns                                            *)
(***************************************************************************)
SpatialK == MaxK - 1

LatVals == {0, -60}

\* the assignment with every class c relabelled f[c], sentinels kept
Relabel(classes, f) ==
    [shape |-> classes.shape,
     buf   |-> [x \in DOMAIN classes.buf |->
                  IF classes.buf[x] = -1 THEN -1 ELSE f[classes.buf[x]]]]

InitMatchSpatial ==
    /\ data_classes_ref \in ClassArrays(SpatialK)
    /\ \E f \in [0..(SpatialK - 1) -> 0..(SpatialK - 1)] :
          data_classes = Relabel(data_classes_ref, f)
    /\ lat \in [1..NLoc -> LatVals]
    /\ avg0 = <<>>
    /\ avg1 = <<>>
    /\ NoPipe
    /\ NoHist

\* inds = match_spatial(data_classes, data_classes_ref, K), then
\* reorder(data_classes, inds)
MatchSpatial ==
    /\ last = "none"
    /\ LET inds == match_spatial(data_classes, data_classes_ref, lat, SpatialK)
       IN  /\ arg' = [data_classes |-> data_classes, data_classes_ref |-> data_classes_ref,
                      lat |-> lat, inds |-> inds]
           /\ result' = reorder(data_classes, inds)
    /\ last' = "match_spatial"
    /\ prev' = last
    /\ prev_arg' = arg
    /\ prev_result' = result
    /\ UNCHANGED <<pipeVars, labelVars>>

NextMatchSpatial == MatchSpatial

SpecMatchSpatial == InitMatchSpatial /\ [][NextMatchSpatial]_vars

\* cos(lat * 3.1415/180)-weighted overlap of candidate class j and reference class k
Overlap(a, j, k) ==
    SumSeq([x \in DOMAIN a.lat |->
              IF a.data_classes.buf[x] = j /\ a.data_classes_ref.buf[x] = k
              THEN cos_lat_3_1415(a.lat[x]) ELSE 0])

\* the candidate is the reference relabelled by the permutation p
RelabelledBy(a, p) == a.data_classes = Relabel(a.data_classes_ref, p)

\* every class holds a location
AllClassesPresent(classes, K) ==
    \A k \in 0..(K - 1) : \E x \in DOMAIN classes.buf : classes.buf[x] = k

\* C10: match_spatial returns for each reference class k a candidate class of
\* largest weighted overlap with it; when the candidate is the reference
\* relabelled by a permutation and no class is empty, the candidate reordered
\* by what match_spatial returns equals the reference at every position.
C10_MatchSpatialAligns ==
    last = "match_spatial" =>
        /\ \A k \in 0..(SpatialK - 1) : \A j \in 0..(SpatialK - 1) :
              Overlap(arg, arg.inds[k], k) >= Overlap(arg, j, k)
        /\ \A p \in Perms(SpatialK) :
              (RelabelledBy(arg, p) /\ AllClassesPresent(arg.data_classes_ref, SpatialK))
              => (arg.inds = p /\ result = arg.data_classes_ref)

\* a reference with every class and a sentinel, relabelled by a permutation
\* that moves its classes, was aligned
C10_Witness ==
    /\ last = "match_spatial"
    /\ AllClassesPresent(arg.data_classes_ref, SpatialK)
    /\ \E x \in DOMAIN arg.data_classes_ref.buf : arg.data_classes_ref.buf[x] = -1
    /\ \E p \in Perms(SpatialK) : RelabelledBy(arg, p) /\ p[0] # 0
    /\ arg.data_classes # arg.data_classes_ref
    /\ result = arg.data_classes_ref

(***************************************************************************)
(* count_area, applied once to the inputs drawn                            *)
(***************************************************************************)
\* np.cos(lats * np.pi / 180) in units of 1/2 (to within 1e-16)
cos_lat_pi(l) == CASE l = 0 -> 2 [] l = -60 -> 1

\* count_area.func: the array out that its loop fills for one time slice; func
\* has no return statement
count_area_func_out(buf, cos_lats, K) ==
    [i \in 0..(K - 1) |->
        SumSeq([x \in DOMAIN buf |-> IF buf[x] = i THEN cos_lats[x] ELSE 0])]

\* count_area: `return out` stands in count_area's own body, after the
\* definition of func and before the call of xr.apply_ufunc; no name out is
\* bound there or at module level, so every call raises NameError
count_area(classes, lats, K) ==
    LET cos_lats == [x \in DOMAIN lats |-> cos_lat_pi(lats[x])]
        bound    == {"data_classes", "K", "lats", "cos_lats", "func"}
    IN  IF "out" \in bound
        THEN [raised |-> "none", value |-> count_area_func_out(classes.buf, cos_lats, K)]
        ELSE [raised |-> "NameError", value |-> <<>>]

InitCountArea ==
    /\ \E K \in 1..MaxK : data_classes \in ClassArrays(K)
    /\ lat \in [1..NLoc -> LatVals]
    /\ data_classes_ref = NoArray
    /\ avg0 = <<>>
    /\ avg1 = <<>>
    /\ NoPipe
    /\ NoHist

CountArea ==
    /\ last = "none"
    /\ \E K \in 1..MaxK :
          /\ arg' = [data_classes |-> data_classes, lat |-> lat, K |-> K]
          /\ result' = count_area(data_classes, lat, K)
    /\ last' = "count_area"
    /\ prev' = last
    /\ prev_arg' = arg
    /\ prev_result' = result
    /\ UNCHANGED <<pipeVars, labelVars>>

NextCountArea == CountArea

SpecCountArea == InitCountArea /\ [][NextCountArea]_vars

\* C5: count_area returns a value, not an error: for each class k in 0..K-1
\* the sum of cos(latitude) over the locations assigned to k (N/K for every
\* class when the latitude is 0 throughout and N locations split evenly).
C5_CountAreaReturnsAreas ==
    last = "count_area" =>
        /\ result.raised = "none"
        /\ DOMAIN result.value = 0..(arg.K - 1)
        /\ \A k \in 0..(arg.K - 1) :
              result.value[k] =
                 SumSeq([x \in DOMAIN arg.lat |->
                           IF arg.data_classes.buf[x] = k THEN cos_lat_pi(arg.lat[x]) ELSE 0])

(***************************************************************************)
(* random_sample, applied once to the inputs drawn                         *)
(***************************************************************************)
\* rng.choice(arr, N, replace=False) along axis 0 of an (n, lev) slice: the
\* N distinct row indices it can draw, in the order drawn
random_sample_choice(n, N) ==
    {s \in [1..N -> 1..n] : \A a, b \in 1..N : s[a] = s[b] => a = b}

\* location x of time slice t of a (time, n, lev) array
SliceRow(arr, t, x) ==
    LET n   == arr.shape[2]
        lev == arr.shape[3]
    IN  [l \in 1..lev |-> arr.buf[((t - 1) * n + (x - 1)) * lev + l]]

\* random_sample: every value it can return, with the locations drawn for each
\* time slice; the samples are stacked N = (M, time) and transposed to (N, lev)
random_sample(arr, N) ==
    LET T   == arr.shape[1]
        n   == arr.shape[2]
        lev == arr.shape[3]
    IN  IF N > n
        THEN {[raised |-> "ValueError", picks |-> <<>>, out |-> NoArray]}
        ELSE {[raised |-> "none",
               picks  |-> pk,
               out    |-> [shape |-> <<N * T, lev>>,
                           buf   |-> Flatten([s \in 1..(N * T) |->
                                        LET m == ((s - 1) \div T) + 1
                                            t == ((s - 1) % T) + 1
                                        IN  SliceRow(arr, t, pk[t][m])])]] :
              pk \in [1..T -> random_sample_choice(n, N)]}

\* the (time, n, lev) arrays of fully missing and fully valid profiles
SampleInputs ==
    UNION {{[shape |-> <<T, NLoc, NLev>>, buf |-> Flatten(rows)] :
              rows \in [1..(T * NLoc) -> {Profile("all", 1), Profile("none", 1),
                                          Profile("none", 2)}]} :
           T \in 1..MaxTime}

InitRandomSample ==
    /\ data \in SampleInputs
    /\ data_trans = NoArray
    /\ shares_memory = FALSE
    /\ pca = <<>>
    /\ gmm = <<>>
    /\ profiles_in = NoArray
    /\ NoLabels
    /\ NoHist

RandomSample ==
    /\ last = "none"
    /\ \E N \in 1..(NLoc + 1) : \E out \in random_sample(data, N) :
          /\ arg' = [data |-> data, N |-> N]
          /\ result' = out
    /\ last' = "random_sample"
    /\ prev' = last
    /\ prev_arg' = arg
    /\ prev_result' = result
    /\ UNCHANGED <<pipeVars, labelVars>>

NextRandomSample == RandomSample

SpecRandomSample == InitRandomSample /\ [][NextRandomSample]_vars

\* the locations of time slice t that are not fully missing
ValidLocs(arr, t) ==
    {x \in 1..arr.shape[2] : \E l \in 1..arr.shape[3] : ~SliceRow(arr, t, x)[l].nan}

\* C6: for every time slice with at least N valid locations, the draw for
\* that slice is N distinct locations, all of them valid ones.
C6_SampleValidDistinct ==
    last = "random_sample" =>
        \A t \in 1..arg.data.shape[1] :
            Cardinality(ValidLocs(arg.data, t)) >= arg.N =>
                /\ result.raised = "none"
                /\ DOMAIN result.picks[t] = 1..arg.N
                /\ \A a, b \in 1..arg.N : result.picks[t][a] = result.picks[t][b] => a = b
                /\ \A a \in 1..arg.N : result.picks[t][a] \in ValidLocs(arg.data, t)

====
